---- MODULE Spec2Model ----
(***************************************************************************)
(* A model of the bin_packing_2d crate (src/src/lib.rs): the occupancy     *)
(* bitmap, the best-fit placement of one item, the three-pass place_all    *)
(* driver with its cancellation polls, and the largest-hole computation.   *)
(***************************************************************************)
EXTENDS Integers, Sequences, FiniteSets, TLC

\* Bounds of the model: the bins are 1..MaxW wide and 1..MaxH high, an input
\* holds at most MaxItems items with sides in 1..MaxDim, and a Bin sees at
\* most MaxCalls calls of place_all. The largest-hole computation is also
\* run on the bin of TallW x TallH cells, and the best-fit scan on the bin of
\* DeepW x DeepH cells, which has rows below the first free row.
MaxW == 2
MaxH == 2
MaxDim == 2
MaxItems == 2
MaxCalls == 2
TallW == 3
TallH == 5
DeepW == 2
DeepH == 4

\* Option<T>: None, Some(v).
None == <<>>
Some(v) == <<v>>
Unwrap(o) == o[1]

\* Sentinels of the code: u32::MAX marks a cell of the offshore map that has no
\* distance yet, usize::MAX is the score of "no fit found so far".
Unset == -1
UsizeMax == 2147483647

VARIABLES
    bitmap,        \* Bin.bitmap : Bitmap2d {width, height, bits}
    items,         \* Bin.items : Vec<PlacedItem>
    largest_hole,  \* Bin.largest_hole : Hole
    input_items,   \* place_all: the collected and sorted input
    any_rotatable, \* place_all: local
    strategy,      \* place_all_impl: the strategy of the running pass
    idx,           \* place_all_impl: position of the for loop (1-based)
    all_fit,       \* place_all_impl: local
    impl_ret,      \* the value place_all_impl returned
    pc,            \* control position inside place_all
    result,        \* the value the last place_all returned
    calls,         \* number of place_all calls made on this Bin
    sawTrue,       \* some poll of cancel returned true during the current call
    sawFalse       \* some poll of cancel returned false during the current call

vars == <<bitmap, items, largest_hole, input_items, any_rotatable, strategy,
          idx, all_fit, impl_ret, pc, result, calls, sawTrue, sawFalse>>

----------------------------------------------------------------------------
\* Bitmap2d

Bitmap2dNew(w, h) ==
    [width |-> w, height |-> h, bits |-> [i \in 0..(w * h - 1) |-> FALSE]]

Bitmap2dClear(bm) ==
    [bm EXCEPT !.bits = [i \in DOMAIN bm.bits |-> FALSE]]

Get(bm, x, y) == bm.bits[y * bm.width + x]

----------------------------------------------------------------------------
\* Item, Hole, Rect

Size(item) == IF item.w >= item.h THEN item.w ELSE item.h

DefaultArea(hole) == hole.width * hole.height

Measure(hole) == DefaultArea(hole)

RectHole(r) == [width |-> r.x1 - r.x0 + 1, height |-> r.y1 - r.y0 + 1]

IsObstructed(r, bm) ==
    \E y \in r.y0..r.y1 : \E x \in r.x0..r.x1 : Get(bm, x, y)

\* The neighbour strips; None when the rect touches that edge of the bin.
TopNeighbors(r) ==
    IF r.y0 = 0 THEN None
    ELSE Some([x0 |-> r.x0, y0 |-> r.y0 - 1, x1 |-> r.x1, y1 |-> r.y0 - 1])

BottomNeighbors(r, bin_height) ==
    IF r.y1 + 1 = bin_height THEN None
    ELSE Some([x0 |-> r.x0, y0 |-> r.y1 + 1, x1 |-> r.x1, y1 |-> r.y1 + 1])

RightNeighbors(r, bin_width) ==
    IF r.x1 + 1 = bin_width THEN None
    ELSE Some([x0 |-> r.x1 + 1, y0 |-> r.y0, x1 |-> r.x1 + 1, y1 |-> r.y1])

LeftNeighbors(r) ==
    IF r.x0 = 0 THEN None
    ELSE Some([x0 |-> r.x0 - 1, y0 |-> r.y0, x1 |-> r.x0 - 1, y1 |-> r.y1])

GrowLeft(r) == [r EXCEPT !.x0 = r.x0 - 1]
GrowRight(r) == [r EXCEPT !.x1 = r.x1 + 1]
GrowUp(r) == [r EXCEPT !.y0 = r.y0 - 1]
GrowDown(r) == [r EXCEPT !.y1 = r.y1 + 1]

\* neighbours.map(|x| x.is_obstructed(bitmap)).unwrap_or(true) == false
FreeStrip(n, bm) == IF n = None THEN FALSE ELSE ~IsObstructed(Unwrap(n), bm)

----------------------------------------------------------------------------
\* Bin::calculate_largest_hole

\* The offshore map: 0 on occupied cells, Unset elsewhere.
OffshoreInit(bm) == [i \in DOMAIN bm.bits |-> IF bm.bits[i] THEN 0 ELSE Unset]

\* The closure `get`: a cell outside the bin has no value.
MapGet(bm, map, x, y) ==
    IF x >= 0 /\ y >= 0 /\ x < bm.width /\ y < bm.height
    THEN Some(map[y * bm.width + x])
    ELSE None

\* get(cx, cy).unwrap_or(0)
MapDist(bm, map, x, y) ==
    LET g == MapGet(bm, map, x, y) IN IF g = None THEN 0 ELSE Unwrap(g)

\* One sweep of the loop body for the wavefront `dist`. A cell set in this
\* sweep holds dist + 1, so it never counts as a neighbour at `dist`.
Sweep(bm, map, dist) ==
    [i \in DOMAIN map |->
        LET x == i % bm.width
            y == i \div bm.width
        IN  IF map[i] # Unset THEN map[i]
            ELSE IF \E dy \in -1..1 : \E dx \in -1..1 :
                        MapDist(bm, map, x + dx, y + dy) = dist
                 THEN dist + 1
                 ELSE Unset]

RECURSIVE OffshoreLoop(_, _, _)
OffshoreLoop(bm, map, dist) ==
    LET next == Sweep(bm, map, dist)
    IN  IF next = map THEN [map |-> map, dist |-> dist]
        ELSE OffshoreLoop(bm, next, dist + 1)

\* One iteration of the growth loop; the rect itself when no side can grow.
GrowStep(bm, rect) ==
    LET horizFirst == Measure(RectHole(GrowRight(rect))) > Measure(RectHole(GrowDown(rect)))
        dirs == IF horizFirst THEN <<TRUE, FALSE>> ELSE <<FALSE, TRUE>>
        Try(horiz) ==
            IF horiz
            THEN IF FreeStrip(LeftNeighbors(rect), bm) THEN GrowLeft(rect)
                 ELSE IF FreeStrip(RightNeighbors(rect, bm.width), bm) THEN GrowRight(rect)
                 ELSE rect
            ELSE IF FreeStrip(TopNeighbors(rect), bm) THEN GrowUp(rect)
                 ELSE IF FreeStrip(BottomNeighbors(rect, bm.height), bm) THEN GrowDown(rect)
                 ELSE rect
        first == Try(dirs[1])
    IN  IF first # rect THEN first ELSE Try(dirs[2])

RECURSIVE Grow(_, _)
Grow(bm, rect) ==
    LET next == GrowStep(bm, rect)
    IN  IF next = rect THEN rect ELSE Grow(bm, next)

\* The candidates: the cells at the largest distance, as indices y*width + x.
Candidates(bm, off) == {i \in DOMAIN off.map : off.map[i] = off.dist}

\* The loop over the candidates, which run in row-major order: a candidate
\* replaces the incumbent only with a strictly larger metric, so the loop
\* ends with the grown hole of the first candidate whose metric is the
\* largest, and with the initial 0 x 0 hole when no metric exceeds 0.
BiggestHole(bm, off) ==
    LET cands == Candidates(bm, off)
        grown == [i \in cands |->
                    RectHole(Grow(bm, [x0 |-> i % bm.width, y0 |-> i \div bm.width,
                                       x1 |-> i % bm.width, y1 |-> i \div bm.width]))]
        biggest_area == IF \E i \in cands : Measure(grown[i]) > 0
                        THEN CHOOSE a \in {Measure(grown[i]) : i \in cands} :
                                 \A i \in cands : Measure(grown[i]) <= a
                        ELSE 0
        winners == {i \in cands : Measure(grown[i]) = biggest_area}
    IN  IF biggest_area = 0 THEN [width |-> 0, height |-> 0]
        ELSE grown[CHOOSE i \in winners : \A j \in winners : i <= j]

CalculateLargestHole(bm) ==
    LET off == OffshoreLoop(bm, OffshoreInit(bm), 0)
    IN  IF off.dist = 0 THEN [width |-> 0, height |-> 0]
        ELSE BiggestHole(bm, off)

----------------------------------------------------------------------------
\* Bin::place, Bin::evaluate_fit, Bin::add_to_best_fit

\* Place with the PlacedItem's extent taken from the item as given, the
\* rotation forgotten.
PlaceUnrotatedExtent(bm, its, x0, y0, item, rotated) ==
    LET w == IF rotated THEN item.h ELSE item.w
        h == IF rotated THEN item.w ELSE item.h
    IN  [bitmap |-> [bm EXCEPT !.bits =
                        [i \in DOMAIN bm.bits |->
                            IF \E y \in y0..(y0 + h - 1) : \E x \in x0..(x0 + w - 1) :
                                   i = y * bm.width + x
                            THEN TRUE ELSE bm.bits[i]]],
         items |-> Append(its, [x0 |-> x0, y0 |-> y0, x1 |-> x0 + item.w,
                                y1 |-> y0 + item.h, rotated |-> rotated,
                                id |-> item.id])]

\* Stamps the rectangle into the bitmap and pushes the PlacedItem.
Place(bm, its, x0, y0, item, rotated) ==
    LET w == IF rotated THEN item.h ELSE item.w
        h == IF rotated THEN item.w ELSE item.h
    IN  [bitmap |-> [bm EXCEPT !.bits =
                        [i \in DOMAIN bm.bits |->
                            IF \E y \in y0..(y0 + h - 1) : \E x \in x0..(x0 + w - 1) :
                                   i = y * bm.width + x
                            THEN TRUE ELSE bm.bits[i]]],
         items |-> Append(its, [x0 |-> x0, y0 |-> y0, x1 |-> x0 + w, y1 |-> y0 + h,
                                rotated |-> rotated, id |-> item.id])]

\* evaluate_fit without the test of the covered cells.
EvaluateFitIgnoringOccupied(bm, x0, y0, w, h) ==
    IF x0 >= bm.width \/ y0 >= bm.height \/ x0 + w > bm.width \/ y0 + h > bm.height
    THEN None
    ELSE LET ys == y0..(y0 + h - 1)
             xs == x0..(x0 + w - 1)
             left == Cardinality({y \in ys : x0 > 0 /\ ~Get(bm, x0 - 1, y)})
             right == Cardinality({y \in ys : x0 + w < bm.width /\ ~Get(bm, x0 + w, y)})
             top == Cardinality({x \in xs : y0 > 0 /\ ~Get(bm, x, y0 - 1)})
             bottom == Cardinality({x \in xs : y0 + h < bm.height /\ ~Get(bm, x, y0 + h)})
         IN  Some(left + right + top + bottom)

\* None when the rectangle leaves the bin or covers an occupied cell, else
\* Some(points): the number of empty cells bordering the rectangle.
EvaluateFit(bm, x0, y0, w, h) ==
    IF x0 >= bm.width \/ y0 >= bm.height \/ x0 + w > bm.width \/ y0 + h > bm.height
    THEN None
    ELSE IF \E y \in y0..(y0 + h - 1) : \E x \in x0..(x0 + w - 1) : Get(bm, x, y)
    THEN None
    ELSE LET ys == y0..(y0 + h - 1)
             xs == x0..(x0 + w - 1)
             left == Cardinality({y \in ys : x0 > 0 /\ ~Get(bm, x0 - 1, y)})
             right == Cardinality({y \in ys : x0 + w < bm.width /\ ~Get(bm, x0 + w, y)})
             top == Cardinality({x \in xs : y0 > 0 /\ ~Get(bm, x, y0 - 1)})
             bottom == Cardinality({x \in xs : y0 + h < bm.height /\ ~Get(bm, x, y0 + h)})
         IN  Some(left + right + top + bottom)

SaturatingSub(a, b) == IF a > b THEN a - b ELSE 0

\* Improve keeping the first feasible candidate found.
ImproveFirstFit(acc, fit, x, y, rotated) ==
    IF fit # None /\ acc.best_fit = None
    THEN [acc EXCEPT !.cur_best_fit = Unwrap(fit), !.best_fit = Some(<<x, y, rotated>>)]
    ELSE acc

\* Improve with ties going to the later candidate.
ImproveOnTie(acc, fit, x, y, rotated) ==
    IF fit # None /\ Unwrap(fit) <= acc.cur_best_fit
    THEN [acc EXCEPT !.cur_best_fit = Unwrap(fit), !.best_fit = Some(<<x, y, rotated>>)]
    ELSE acc

\* The incumbent replaced by candidate (x, y, rotated) when its fit is
\* strictly better.
Improve(acc, fit, x, y, rotated) ==
    IF fit # None /\ Unwrap(fit) < acc.cur_best_fit
    THEN [acc EXCEPT !.cur_best_fit = Unwrap(fit), !.best_fit = Some(<<x, y, rotated>>)]
    ELSE acc

\* The inner loop's body with the rotated candidate tried for every item.
ScanCellRotatesAll(bm, item, strat, x, y, acc) ==
    LET a0 == IF Get(bm, x, y) THEN [acc EXCEPT !.had_busy = TRUE] ELSE acc
        a1 == IF strat = "DoNotRotate" \/ strat = "RotateIfSuitable"
              THEN Improve(a0, EvaluateFit(bm, x, y, item.w, item.h), x, y, FALSE)
              ELSE a0
        a2 == IF strat = "Rotate" \/ strat = "RotateIfSuitable"
              THEN Improve(a1, EvaluateFit(bm, x, y, item.h, item.w), x, y, TRUE)
              ELSE a1
    IN  a2

\* The body of the inner loop at anchor (x, y).
ScanCell(bm, item, strat, x, y, acc) ==
    LET a0 == IF Get(bm, x, y) THEN [acc EXCEPT !.had_busy = TRUE] ELSE acc
        a1 == IF strat = "DoNotRotate" \/ strat = "RotateIfSuitable"
              THEN Improve(a0, EvaluateFit(bm, x, y, item.w, item.h), x, y, FALSE)
              ELSE a0
        a2 == IF item.allow_rotate /\ (strat = "Rotate" \/ strat = "RotateIfSuitable")
              THEN Improve(a1, EvaluateFit(bm, x, y, item.h, item.w), x, y, TRUE)
              ELSE a1
    IN  a2

\* The inner loop: x from `x` up to xlim - 1.
RECURSIVE ScanRow(_, _, _, _, _, _, _)
ScanRow(bm, item, strat, x, xlim, y, acc) ==
    IF x >= xlim THEN acc
    ELSE ScanRow(bm, item, strat, x + 1, xlim, y, ScanCell(bm, item, strat, x, y, acc))

\* The row range cut by the item's larger side.
YLimitLargestDim(bm, item) ==
    LET largest_dim == IF item.h >= item.w THEN item.h ELSE item.w
    IN  SaturatingSub(bm.height, largest_dim - 1)

\* The exclusive upper ends of the anchor ranges.
YLimit(bm, item) ==
    LET smallest_dim == IF item.h <= item.w THEN item.h ELSE item.w
    IN  SaturatingSub(bm.height, smallest_dim - 1)

XLimit(bm, item) ==
    LET smallest_dim == IF item.h <= item.w THEN item.h ELSE item.w
    IN  SaturatingSub(bm.width, smallest_dim - 1)

\* The end of a row: stop scanning once a fit is known and the row was empty.
RowBreak(acc) == ~acc.had_busy /\ acc.best_fit # None

\* The outer loop with cancel polled after the row instead of before it.
RECURSIVE ScanRowsPollLate(_, _, _, _, _, _)
ScanRowsPollLate(bm, item, strat, y, acc, cancelAt) ==
    IF y >= YLimit(bm, item)
    THEN [acc |-> acc, cancelled |-> FALSE, polls |-> y]
    ELSE LET row == ScanRow(bm, item, strat, 0, XLimit(bm, item), y,
                            [acc EXCEPT !.had_busy = FALSE])
         IN  IF RowBreak(row)
             THEN [acc |-> row, cancelled |-> FALSE, polls |-> y]
             ELSE IF cancelAt = Some(y)
             THEN [acc |-> row, cancelled |-> TRUE, polls |-> y]
             ELSE ScanRowsPollLate(bm, item, strat, y + 1, row, cancelAt)

\* The outer loop from row y on. cancelAt is the row whose poll of cancel
\* returns true (None: no poll of this scan does). The result records the
\* incumbent, whether the scan was cancelled, and how many polls said false.
RECURSIVE ScanRows(_, _, _, _, _, _)
ScanRows(bm, item, strat, y, acc, cancelAt) ==
    IF y >= YLimit(bm, item)
    THEN [acc |-> acc, cancelled |-> FALSE, polls |-> y]
    ELSE IF cancelAt = Some(y)
    THEN [acc |-> acc, cancelled |-> TRUE, polls |-> y]
    ELSE LET row == ScanRow(bm, item, strat, 0, XLimit(bm, item), y,
                            [acc EXCEPT !.had_busy = FALSE])
         IN  IF RowBreak(row)
             THEN [acc |-> row, cancelled |-> FALSE, polls |-> y + 1]
             ELSE ScanRows(bm, item, strat, y + 1, row, cancelAt)

\* add_to_best_fit: the bitmap and items afterwards, the returned flag, and
\* what the polls of cancel answered.
AddToBestFit(bm, its, item, strat, cancelAt) ==
    LET unchanged(tr, fa) == [bitmap |-> bm, items |-> its, ret |-> FALSE,
                              polledTrue |-> tr, polledFalse |-> fa]
    IN  IF item.w > bm.width /\ item.h > bm.height
        THEN unchanged(FALSE, FALSE)
        ELSE LET scan == ScanRows(bm, item, strat, 0,
                                  [cur_best_fit |-> UsizeMax, best_fit |-> None,
                                   had_busy |-> FALSE], cancelAt)
             IN  IF scan.cancelled THEN unchanged(TRUE, scan.polls > 0)
                 ELSE IF scan.acc.best_fit = None THEN unchanged(FALSE, scan.polls > 0)
                 ELSE LET b == Unwrap(scan.acc.best_fit)
                          p == Place(bm, its, b[1], b[2], item, b[3])
                      IN  [bitmap |-> p.bitmap, items |-> p.items, ret |-> TRUE,
                           polledTrue |-> FALSE, polledFalse |-> scan.polls > 0]

----------------------------------------------------------------------------
\* Bin::place_all and Bin::place_all_impl

\* sort_by_key(|x| Reverse(x.size())): a stable sort, largest size first.
\* Inserting the elements in input order, each after every element that is
\* at least as large, keeps equal sizes in input order.
InsertBySize(sorted, e) ==
    LET k == Cardinality({i \in 1..Len(sorted) : Size(sorted[i]) >= Size(e)})
    IN  SubSeq(sorted, 1, k) \o <<e>> \o SubSeq(sorted, k + 1, Len(sorted))

RECURSIVE SortFrom(_, _, _)
SortFrom(input, i, sorted) ==
    IF i > Len(input) THEN sorted
    ELSE SortFrom(input, i + 1, InsertBySize(sorted, input[i]))

SortBySize(input) == SortFrom(input, 1, <<>>)

AnyRotatable(its) == \E i \in 1..Len(its) : its[i].allow_rotate

\* The inputs: every list of at most MaxItems items with sides in 1..MaxDim;
\* the id of an item is its position in the caller's list.
ItemShapes == [w : 1..MaxDim, h : 1..MaxDim, allow_rotate : BOOLEAN]

WithIds(shapes) ==
    [i \in 1..Len(shapes) |->
        [w |-> shapes[i].w, h |-> shapes[i].h,
         allow_rotate |-> shapes[i].allow_rotate, id |-> i]]

InputLists == {WithIds(s) : s \in UNION {[1..n -> ItemShapes] : n \in 0..MaxItems}}

\* Bin::new(w, h), before any call.
NewBin(w, h) ==
    /\ bitmap = Bitmap2dNew(w, h)
    /\ items = <<>>
    /\ largest_hole = [width |-> w, height |-> h]
    /\ input_items = <<>>
    /\ any_rotatable = FALSE
    /\ strategy = "DoNotRotate"
    /\ idx = 1
    /\ all_fit = TRUE
    /\ impl_ret = FALSE
    /\ pc = "idle"
    /\ result = FALSE
    /\ calls = 0
    /\ sawTrue = FALSE
    /\ sawFalse = FALSE

Init == \E w \in 1..MaxW : \E h \in 1..MaxH : NewBin(w, h)

\* Entry of place_all_impl(items, strat): an empty list returns all_fit = true
\* without polling.
StartPass(strat, its) ==
    /\ strategy' = strat
    /\ idx' = 1
    /\ all_fit' = TRUE
    /\ IF Len(its) = 0
       THEN pc' = "impl_done" /\ impl_ret' = TRUE
       ELSE pc' = "add" /\ impl_ret' = impl_ret

\* place_all returns v; the locals of place_all_impl are gone.
Return(v) ==
    /\ pc' = "idle"
    /\ result' = v
    /\ idx' = 1
    /\ all_fit' = TRUE
    /\ UNCHANGED <<strategy, impl_ret>>

\* place_all(input, cancel) up to the first call of place_all_impl.
PlaceAll(input) ==
    /\ pc = "idle"
    /\ calls < MaxCalls
    /\ calls' = calls + 1
    /\ input_items' = SortBySize(input)
    /\ any_rotatable' = AnyRotatable(input)
    /\ sawTrue' = FALSE
    /\ sawFalse' = FALSE
    /\ StartPass("DoNotRotate", input)
    /\ UNCHANGED <<bitmap, items, largest_hole, result>>

\* place_all_impl: `if !add_to_best_fit(..) { all_fit = false }`.
UpdateAllFitLastOnly(fit_so_far, ret) == ret

UpdateAllFit(fit_so_far, ret) == IF ~ret THEN FALSE ELSE fit_so_far

\* The scan positions at which a poll of cancel may return true.
CancelPoints(bm, item) == {None} \cup {Some(y) : y \in 0..(YLimit(bm, item) - 1)}

\* place_all_impl: the call of add_to_best_fit for items[idx].
AddItem ==
    /\ pc = "add"
    /\ \E cancelAt \in CancelPoints(bitmap, input_items[idx]) :
        \E r \in {AddToBestFit(bitmap, items, input_items[idx], strategy, cancelAt)} :
              /\ bitmap' = r.bitmap
              /\ items' = r.items
              /\ all_fit' = UpdateAllFit(all_fit, r.ret)
              /\ sawTrue' = (sawTrue \/ r.polledTrue)
              /\ sawFalse' = (sawFalse \/ r.polledFalse)
    /\ pc' = "poll"
    /\ UNCHANGED <<largest_hole, input_items, any_rotatable, strategy, idx,
                   impl_ret, result, calls>>

\* place_all_impl: the poll of cancel after an item, answering c.
PollItem(c) ==
    /\ pc = "poll"
    /\ sawTrue' = (sawTrue \/ c)
    /\ sawFalse' = (sawFalse \/ ~c)
    /\ IF c
       THEN pc' = "impl_done" /\ impl_ret' = FALSE /\ idx' = idx
       ELSE IF idx < Len(input_items)
       THEN pc' = "add" /\ impl_ret' = impl_ret /\ idx' = idx + 1
       ELSE pc' = "impl_done" /\ impl_ret' = all_fit /\ idx' = idx
    /\ UNCHANGED <<bitmap, items, largest_hole, input_items, any_rotatable,
                   strategy, all_fit, result, calls>>

\* The largest hole kept after a rotated pass that failed.
BetterHole(new_largest_hole, old) ==
    IF Measure(new_largest_hole) > Measure(old) THEN new_largest_hole ELSE old

\* place_all after pass 1 returned; c answers the poll before pass 2.
AfterDoNotRotate(c) ==
    /\ pc = "impl_done"
    /\ strategy = "DoNotRotate"
    /\ largest_hole' = CalculateLargestHole(bitmap)
    /\ IF impl_ret
       THEN Return(TRUE) /\ UNCHANGED <<bitmap, items, sawTrue, sawFalse>>
       ELSE IF ~any_rotatable
       THEN Return(FALSE) /\ UNCHANGED <<bitmap, items, sawTrue, sawFalse>>
       ELSE /\ sawTrue' = (sawTrue \/ c)
            /\ sawFalse' = (sawFalse \/ ~c)
            /\ IF c
               THEN Return(FALSE) /\ UNCHANGED <<bitmap, items>>
               ELSE /\ items' = <<>>
                    /\ bitmap' = Bitmap2dClear(bitmap)
                    /\ StartPass("Rotate", input_items)
                    /\ UNCHANGED result
    /\ UNCHANGED <<input_items, any_rotatable, calls>>

\* place_all after pass 2 returned; c answers the poll before pass 3.
AfterRotate(c) ==
    /\ pc = "impl_done"
    /\ strategy = "Rotate"
    /\ IF impl_ret
       THEN /\ largest_hole' = CalculateLargestHole(bitmap)
            /\ Return(TRUE)
            /\ UNCHANGED <<bitmap, items, sawTrue, sawFalse>>
       ELSE /\ largest_hole' = BetterHole(CalculateLargestHole(bitmap), largest_hole)
            /\ sawTrue' = (sawTrue \/ c)
            /\ sawFalse' = (sawFalse \/ ~c)
            /\ IF c
               THEN Return(FALSE) /\ UNCHANGED <<bitmap, items>>
               ELSE /\ items' = <<>>
                    /\ bitmap' = Bitmap2dClear(bitmap)
                    /\ StartPass("RotateIfSuitable", input_items)
                    /\ UNCHANGED result
    /\ UNCHANGED <<input_items, any_rotatable, calls>>

\* place_all after pass 3 returned.
AfterRotateIfSuitable ==
    /\ pc = "impl_done"
    /\ strategy = "RotateIfSuitable"
    /\ largest_hole' = BetterHole(CalculateLargestHole(bitmap), largest_hole)
    /\ Return(impl_ret)
    /\ UNCHANGED <<bitmap, items, input_items, any_rotatable, calls, sawTrue, sawFalse>>

\* The poll before a rotated pass happens only after a failed pass with a
\* rotatable item; elsewhere its answer is not drawn.
PollsBeforePass == pc = "impl_done" /\ ~impl_ret /\ any_rotatable

Step ==
    \/ AddItem
    \/ \E c \in BOOLEAN : PollItem(c)
    \/ \E c \in BOOLEAN : (c => PollsBeforePass) /\ AfterDoNotRotate(c)
    \/ \E c \in BOOLEAN : (c => PollsBeforePass) /\ AfterRotate(c)
    \/ AfterRotateIfSuitable

Next ==
    \/ pc = "idle" /\ \E input \in InputLists : PlaceAll(input)
    \/ Step

Spec == Init /\ [][Next]_vars

----------------------------------------------------------------------------
\* The documented example (crate documentation and tests::it_works): a
\* 10x10 bin and the items D, A, B, C.
ScenarioA ==
    << [w |-> 10, h |-> 3, allow_rotate |-> TRUE, id |-> "D"],
       [w |-> 10, h |-> 3, allow_rotate |-> TRUE, id |-> "A"],
       [w |-> 10, h |-> 3, allow_rotate |-> TRUE, id |-> "B"],
       [w |-> 1, h |-> 10, allow_rotate |-> TRUE, id |-> "C"] >>

InitA == NewBin(10, 10)

NextA ==
    \/ PlaceAll(ScenarioA)
    \/ Step

SpecA == InitA /\ [][NextA]_vars

\* The tall bin, packed with one item per call.
SingleItemLists == {l \in InputLists : Len(l) = 1}

InitTall == NewBin(TallW, TallH)

NextTall ==
    \/ pc = "idle" /\ \E input \in SingleItemLists : PlaceAll(input)
    \/ Step

SpecTall == InitTall /\ [][NextTall]_vars

\* The deep bin, packed with the same inputs as the small bins.
InitDeep == NewBin(DeepW, DeepH)

SpecDeep == InitDeep /\ [][Next]_vars

----------------------------------------------------------------------------
\* Helpers of the properties.

\* place_all has returned at least once and no call is running.
Returned == pc = "idle" /\ calls > 0

\* The cells of the half-open rectangle of a PlacedItem.
Cells(p) == {<<x, y>> : x \in p.x0..(p.x1 - 1), y \in p.y0..(p.y1 - 1)}

\* The input item a PlacedItem of the current call was made from.
InputOf(p) == CHOOSE i \in {input_items[k] : k \in 1..Len(input_items)} : i.id = p.id

----------------------------------------------------------------------------
\* C1: whenever place_all has returned, also after a repeated call on the
\* same Bin and after a cancellation, any two distinct PlacedItems of the
\* solution cover disjoint half-open rectangles.
C1_NoOverlap ==
    Returned =>
        \A i \in 1..Len(items) : \A j \in 1..Len(items) :
            i # j => Cells(items[i]) \cap Cells(items[j]) = {}

\* A second call has returned and the solution holds items of both calls.
C1_Witness ==
    /\ Returned
    /\ calls = 2
    /\ \E i \in 1..Len(items) : \E j \in 1..Len(items) :
          i < j /\ items[i].id = items[j].id

\* C2: whenever place_all has returned, every PlacedItem satisfies
\* 0 <= x0 < x1 <= width and 0 <= y0 < y1 <= height, also when the input
\* held items larger than the bin in one or both dimensions.
C2_Containment ==
    Returned =>
        \A i \in 1..Len(items) :
            LET p == items[i]
            IN  /\ 0 <= p.x0 /\ p.x0 < p.x1 /\ p.x1 <= bitmap.width
                /\ 0 <= p.y0 /\ p.y0 < p.y1 /\ p.y1 <= bitmap.height

\* A first call returned with an item placed although it is wider than the
\* bin, while another input item that is too wide is absent from the solution.
C2_Witness ==
    /\ Returned
    /\ calls = 1
    /\ \E k \in 1..Len(input_items) :
          /\ input_items[k].w > bitmap.width
          /\ \E i \in 1..Len(items) : items[i].id = input_items[k].id
    /\ \E k \in 1..Len(input_items) :
          /\ input_items[k].w > bitmap.width
          /\ \A i \in 1..Len(items) : items[i].id # input_items[k].id

\* C3: on a fresh Bin and with cancel never true, place_all returns true
\* exactly when the solution holds one PlacedItem for every input item and
\* nothing else; when it returns false some input item is absent.
C3_ReturnValue ==
    (Returned /\ calls = 1 /\ ~sawTrue) =>
        LET PlacedOf(k) == {i \in 1..Len(items) : items[i].id = input_items[k].id}
            complete == /\ Len(items) = Len(input_items)
                        /\ \A k \in 1..Len(input_items) : Cardinality(PlacedOf(k)) = 1
        IN  /\ result <=> complete
            /\ ~result => \E k \in 1..Len(input_items) : PlacedOf(k) = {}

\* The first call returned true from the third pass with two items placed.
C3_Witness ==
    /\ Returned /\ calls = 1 /\ ~sawTrue
    /\ result
    /\ strategy = "RotateIfSuitable"
    /\ Len(items) = 2

\* C4: during and after the first call every PlacedItem has the extent of
\* its input item, swapped exactly when rotated is true, and rotated is true
\* only for an item that allows rotation.
C4_RotationConsistency ==
    calls = 1 =>
        \A i \in 1..Len(items) :
            LET p == items[i]
                it == InputOf(p)
            IN  /\ p.rotated => (p.x1 - p.x0 = it.h /\ p.y1 - p.y0 = it.w)
                /\ ~p.rotated => (p.x1 - p.x0 = it.w /\ p.y1 - p.y0 = it.h)
                /\ ~it.allow_rotate => ~p.rotated

\* The third pass placed a non-square item rotated and an item that may not
\* rotate unrotated.
C4_Witness ==
    /\ calls = 1
    /\ strategy = "RotateIfSuitable"
    /\ \E i \in 1..Len(items) :
          items[i].rotated /\ InputOf(items[i]).w # InputOf(items[i]).h
    /\ \E i \in 1..Len(items) :
          ~items[i].rotated /\ ~InputOf(items[i]).allow_rotate

\* C5: once a poll of cancel has returned true during a call, no further item
\* is attempted, no further pass is started, and place_all returns false,
\* whatever the predicate answers afterwards.
C5_CancelAborts ==
    sawTrue => (pc # "add" /\ (pc = "idle" => result = FALSE))

\* The free rectangles of a bitmap: w x h cells at (x0, y0), inside the bin
\* and all unoccupied.
IsFreeRect(bm, x0, y0, w, h) ==
    /\ x0 + w <= bm.width
    /\ y0 + h <= bm.height
    /\ \A x \in x0..(x0 + w - 1) : \A y \in y0..(y0 + h - 1) : ~bm.bits[y * bm.width + x]

FullyOccupied(bm) == \A i \in DOMAIN bm.bits : bm.bits[i]

\* C6: after place_all returned without cancellation (here: the first call
\* on a fresh Bin), get_largest_hole() is free space of the final grid: a
\* free rectangle of its width and height exists there, and it is (0,0) when
\* the grid is completely occupied.
C6_HoleOfFinalGrid ==
    (Returned /\ calls = 1 /\ ~sawTrue) =>
        /\ \E x0 \in 0..(bitmap.width - 1) : \E y0 \in 0..(bitmap.height - 1) :
              IsFreeRect(bitmap, x0, y0, largest_hole.width, largest_hole.height)
        /\ FullyOccupied(bitmap) => largest_hole = [width |-> 0, height |-> 0]

\* The largest area of a free rectangle of the bitmap, 0 when no cell is free.
MaxFreeArea(bm) ==
    LET areas == {w * h : <<w, h>> \in
                     {d \in (1..bm.width) \X (1..bm.height) :
                         \E x0 \in 0..(bm.width - 1) : \E y0 \in 0..(bm.height - 1) :
                             IsFreeRect(bm, x0, y0, d[1], d[2])}}
    IN  IF areas = {} THEN 0 ELSE CHOOSE a \in areas : \A b \in areas : b <= a

\* C7: on every grid reached by packing, calculate_largest_hole (default
\* metric) returns a Hole whose area is the largest area of any free
\* axis-aligned rectangle, and 0 x 0 exactly when no cell is free.
C7_LargestHoleIsLargest ==
    LET hole == CalculateLargestHole(bitmap)
    IN  /\ DefaultArea(hole) = MaxFreeArea(bitmap)
        /\ (hole = [width |-> 0, height |-> 0]) <=> FullyOccupied(bitmap)

\* C8 as stated: with cancel true on every poll, place_all on a fresh Bin
\* returns false and leaves the solution empty, for every item list, the
\* empty one included.
C8_AlwaysCancelReturnsFalse ==
    (Returned /\ calls = 1 /\ ~sawFalse) => (result = FALSE /\ items = <<>>)

\* C8 amended: with cancel true on every poll, place_all on a fresh Bin
\* leaves the solution empty; it returns false for every non-empty item list
\* and true for the empty list, for which cancel is never polled.
C8_AlwaysCancel ==
    (Returned /\ calls = 1 /\ ~sawFalse) =>
        /\ items = <<>>
        /\ result <=> (Len(input_items) = 0)
        /\ sawTrue <=> (Len(input_items) > 0)

\* Every poll answered true for a list of two unit squares, each of which
\* fits the empty bin.
C8_Witness ==
    /\ Returned /\ calls = 1 /\ ~sawFalse /\ sawTrue
    /\ Len(input_items) = 2
    /\ \A k \in 1..Len(input_items) : input_items[k].w = 1 /\ input_items[k].h = 1
    /\ result = FALSE

\* C9: the documented example, packed on a new 10x10 bin without
\* cancellation, returns true with exactly D, A, B unrotated at rows 0, 3, 6
\* and C rotated at row 9, in this order, and every cell covered.
C9_ScenarioA ==
    (Returned /\ calls = 1 /\ ~sawTrue) =>
        /\ result = TRUE
        /\ items = << [x0 |-> 0, y0 |-> 0, x1 |-> 10, y1 |-> 3, rotated |-> FALSE, id |-> "D"],
                      [x0 |-> 0, y0 |-> 3, x1 |-> 10, y1 |-> 6, rotated |-> FALSE, id |-> "A"],
                      [x0 |-> 0, y0 |-> 6, x1 |-> 10, y1 |-> 9, rotated |-> FALSE, id |-> "B"],
                      [x0 |-> 0, y0 |-> 9, x1 |-> 10, y1 |-> 10, rotated |-> TRUE, id |-> "C"] >>
        /\ \A x \in 0..9 : \A y \in 0..9 :
              \E i \in 1..Len(items) : <<x, y>> \in Cells(items[i])

\* The example ran its three passes uncancelled and returned.
C9_Witness ==
    /\ Returned /\ calls = 1 /\ ~sawTrue
    /\ input_items = ScenarioA
    /\ strategy = "RotateIfSuitable"
    /\ Len(items) = 4

\* The candidates a pass permits for an item, as extents (w, h).
Permitted(item, strat) ==
    (IF strat = "DoNotRotate" \/ strat = "RotateIfSuitable"
     THEN {<<item.w, item.h>>} ELSE {})
    \cup
    (IF item.allow_rotate /\ (strat = "Rotate" \/ strat = "RotateIfSuitable")
     THEN {<<item.h, item.w>>} ELSE {})

\* Some permitted candidate is feasible at some anchor of the grid.
ExistsFeasible(bm, item, strat) ==
    \E d \in Permitted(item, strat) :
        \E x0 \in 0..(bm.width - 1) : \E y0 \in 0..(bm.height - 1) :
            IsFreeRect(bm, x0, y0, d[1], d[2])

\* C10: a best-fit step whose polls of cancel all answer false, in a call
\* not cancelled so far, places the item exactly when some permitted
\* candidate is feasible somewhere on the grid; the placed rectangle is then
\* stamped and appended, and otherwise grid and solution are unchanged.
C10_PlacementCompleteness ==
    [][(pc = "add" /\ pc' = "poll" /\ ~sawTrue') =>
          LET item == input_items[idx]
              feasible == ExistsFeasible(bitmap, item, strategy)
          IN  /\ feasible => /\ Len(items') = Len(items) + 1
                              /\ items'[Len(items')].id = item.id
                              /\ bitmap' # bitmap
                              /\ all_fit' = all_fit
              /\ ~feasible => /\ items' = items
                               /\ bitmap' = bitmap
                               /\ all_fit' = FALSE]_vars

\* In the second pass, uncancelled, the first item was placed and the second,
\* for which no permitted candidate is feasible, was not.
C10_Witness ==
    /\ pc = "poll" /\ ~sawTrue
    /\ strategy = "Rotate"
    /\ idx = 2
    /\ Len(items) = 1
    /\ ~ExistsFeasible(bitmap, input_items[2], strategy)
    /\ input_items[2].allow_rotate

----------------------------------------------------------------------------
\* The fit scores of the feasible candidates a pass permits for an item at
\* the anchors of the given rows.
FeasibleScores(bm, item, strat, rows) ==
    {Unwrap(EvaluateFit(bm, c[1], c[2], c[3][1], c[3][2])) :
        c \in {k \in (0..(bm.width - 1)) \X rows \X Permitted(item, strat) :
                  EvaluateFit(bm, k[1], k[2], k[3][1], k[3][2]) # None}}

MinOf(S) == CHOOSE m \in S : \A n \in S : m <= n

AllRows(bm) == 0..(bm.height - 1)

\* The rows the scan visits: all of them, or those up to the first row whose
\* anchor cells are all unoccupied while a feasible candidate exists in that
\* row or above it.
ScannedRows(bm, item, strat) ==
    LET stops == {y \in 0..(YLimit(bm, item) - 1) :
                     /\ \A x \in 0..(XLimit(bm, item) - 1) : ~Get(bm, x, y)
                     /\ FeasibleScores(bm, item, strat, 0..y) # {}}
    IN  IF stops = {} THEN AllRows(bm) ELSE 0..MinOf(stops)

\* The step is a best-fit step that placed items[idx], in a call in which no
\* poll of cancel has answered true.
PlacedUncancelled ==
    pc = "add" /\ pc' = "poll" /\ ~sawTrue' /\ Len(items') = Len(items) + 1

\* The fit score the placement of this step had on the grid before it.
ChosenScore ==
    LET p == items'[Len(items')]
    IN  Unwrap(EvaluateFit(bitmap, p.x0, p.y0, p.x1 - p.x0, p.y1 - p.y0))

\* C11 as stated: whenever the best-fit step places an item (cancel never
\* true), the fit score of the chosen placement is the minimum over all
\* feasible candidates of the whole grid in the orientations permitted for
\* the pass, so that the early stop after an empty scanned row never discards
\* a later row's candidate with a strictly lower score.
C11_BestFitMinimality ==
    [][PlacedUncancelled =>
          ChosenScore = MinOf(FeasibleScores(bitmap, input_items[idx], strategy,
                                             AllRows(bitmap)))]_vars

\* C11 amended: whenever the best-fit step places an item (cancel never
\* true), the fit score of the chosen placement is the minimum over the
\* feasible permitted candidates anchored in the rows scanned, which end at
\* the first row with no occupied anchor cell once a candidate is known.
C11_MinimalAmongScannedRows ==
    [][PlacedUncancelled =>
          ChosenScore = MinOf(FeasibleScores(bitmap, input_items[idx], strategy,
                                             ScannedRows(bitmap, input_items[idx],
                                                         strategy)))]_vars

\* The grid as it was before the last PlacedItem was stamped.
BitmapBeforeLast ==
    LET p == items[Len(items)]
    IN  [bitmap EXCEPT !.bits =
            [i \in DOMAIN bitmap.bits |->
                bitmap.bits[i] /\ <<i % bitmap.width, i \div bitmap.width>> \notin Cells(p)]]

\* In the first call, uncancelled, the best-fit step has just placed an item
\* after stopping early, and a row it did not scan held a feasible candidate
\* with a strictly lower score than the chosen one.
C11_Witness ==
    /\ pc = "poll" /\ calls = 1 /\ ~sawTrue
    /\ items # <<>>
    /\ items[Len(items)].id = input_items[idx].id
    /\ LET p == items[Len(items)]
            bm == BitmapBeforeLast
            item == input_items[idx]
            chosen == Unwrap(EvaluateFit(bm, p.x0, p.y0, p.x1 - p.x0, p.y1 - p.y0))
        IN  /\ ScannedRows(bm, item, strategy) # AllRows(bm)
            /\ chosen = MinOf(FeasibleScores(bm, item, strategy,
                                             ScannedRows(bm, item, strategy)))
            /\ chosen > MinOf(FeasibleScores(bm, item, strategy, AllRows(bm)))

\* C12: in the pass run with strategy Rotate, a best-fit step not cancelled
\* places an item that allows rotation only rotated, and places an item that
\* does not allow rotation, unrotated, whenever its original orientation
\* (w, h) is feasible somewhere on the grid.
C12_RotatePassOrientation ==
    [][(pc = "add" /\ pc' = "poll" /\ strategy = "Rotate" /\ ~sawTrue') =>
          LET item == input_items[idx]
              placed == Len(items') = Len(items) + 1
              feasibleUnrotated ==
                  \E x0 \in 0..(bitmap.width - 1) : \E y0 \in 0..(bitmap.height - 1) :
                      IsFreeRect(bitmap, x0, y0, item.w, item.h)
          IN  /\ (item.allow_rotate /\ placed) => items'[Len(items')].rotated
              /\ (~item.allow_rotate /\ feasibleUnrotated) =>
                     /\ placed
                     /\ items'[Len(items')].id = item.id
                     /\ ~items'[Len(items')].rotated]_vars

====
